---- MODULE Spec2Model ----
(***************************************************************************)
(* bravado-core: the schema-directed marshaling engine (marshal.py) and    *)
(* the format registry (formatter.py).                                     *)
(*                                                                         *)
(* Python values are tagged records [k |-> kind, v |-> payload]:           *)
(*   none, bool, int, long (Python 2 only), float (payload in halves, so   *)
(*   3 is 1.5), str and bytes (payload: sequence of characters; bytes is a *)
(*   kind of its own on Python 3 only, on Python 2 bytes is str), date     *)
(*   <<y, m, d>>, datetime <<y, m, d, hh, mm, ss, aware, offset minutes>>, *)
(*   list (sequence of values), dict (sequence of [key, val] pairs in      *)
(*   insertion order), model (class name and attributes).                  *)
(* A schema node is a record holding exactly the keys the dict holds.      *)
(* A call returns [ok, val, exc, log]: log is the sequence of observable   *)
(* steps (sub-transform entered, registry lookup, warning, encoder run).   *)
(***************************************************************************)
EXTENDS Integers, Sequences, FiniteSets, TLC

VARIABLES PY3, _formatters, definitions, registered, op, arg_spec, arg_value, ret

vars == <<PY3, _formatters, definitions, registered, op, arg_spec, arg_value, ret>>

\* Bound on the number of register_format calls of one run.
MaxRegs == 2

-----------------------------------------------------------------------------
(* Python values *)

None == [k |-> "none", v |-> 0]
\* value is None
IsNone(value) == value.k = "none"

PyBool(b) == [k |-> "bool", v |-> b]
PyInt(n) == [k |-> "int", v |-> n]
PyLong(n) == [k |-> "long", v |-> n]
PyFloat(h) == [k |-> "float", v |-> h]
PyStr(s) == [k |-> "str", v |-> s]
PyBytes(s) == [k |-> "bytes", v |-> s]
PyDate(y, m, d) == [k |-> "date", v |-> <<y, m, d>>]
PyDateTime(y, m, d, hh, mm, ss, aware, off) == [k |-> "datetime", v |-> <<y, m, d, hh, mm, ss, aware, off>>]
PyList(s) == [k |-> "list", v |-> s]
PyDict(pairs) == [k |-> "dict", v |-> pairs]
PyModel(cls, pairs) == [k |-> "model", v |-> [cls |-> cls, attrs |-> pairs]]

Pair(key, val) == [key |-> key, val |-> val]

Keys(pairs) == {pairs[i].key : i \in 1..Len(pairs)}

Lookup(pairs, key) == pairs[CHOOSE i \in 1..Len(pairs) : pairs[i].key = key].val

\* result[k] = v on an insertion-ordered dict: overwrite in place, else append.
SetItem(pairs, key, val) ==
    IF key \in Keys(pairs)
    THEN [i \in 1..Len(pairs) |-> IF pairs[i].key = key THEN Pair(key, val) ELSE pairs[i]]
    ELSE Append(pairs, Pair(key, val))

-----------------------------------------------------------------------------
(* Call results *)

NoExc == [type |-> "", msg |-> <<>>]

Event(ev, name) == [ev |-> ev, name |-> name]

Return(val, log) == [ok |-> TRUE, val |-> val, exc |-> NoExc, log |-> log]

Raise(type, msg, log) == [ok |-> FALSE, val |-> None, exc |-> [type |-> type, msg |-> msg], log |-> log]

SwaggerMappingError(msg, log) == Raise("SwaggerMappingError", msg, log)

-----------------------------------------------------------------------------
(* Python builtins the format lambdas use *)

Digit(d) == <<"0", "1", "2", "3", "4", "5", "6", "7", "8", "9">>[d + 1]

IsDigit(c) == \E d \in 0..9 : Digit(d) = c

DigitVal(c) == CHOOSE d \in 0..9 : Digit(d) = c

RECURSIVE Digits(_)
Digits(n) == IF n < 10 THEN <<Digit(n)>> ELSE Digits(n \div 10) \o <<Digit(n % 10)>>

RECURSIVE Pad(_, _)
Pad(n, w) == IF w <= 1 THEN Digits(n) ELSE IF Len(Digits(n)) >= w THEN Digits(n) ELSE <<"0">> \o Pad(n, w - 1)

AllDigits(s) == Len(s) > 0 /\ \A i \in 1..Len(s) : IsDigit(s[i])

RECURSIVE ParseNat(_)
ParseNat(s) == IF Len(s) = 0 THEN 0 ELSE 10 * ParseNat(SubSeq(s, 1, Len(s) - 1)) + DigitVal(s[Len(s)])

\* repr of a float held in halves: 3 is "1.5", 4 is "2.0"
FloatRepr(h) == Digits(h \div 2) \o <<".">> \o (IF h % 2 = 1 THEN <<"5">> ELSE <<"0">>)

\* date.isoformat(): YYYY-MM-DD
DateIso(d) == Pad(d[1], 4) \o <<"-">> \o Pad(d[2], 2) \o <<"-">> \o Pad(d[3], 2)

\* the UTC offset as +HH:MM
OffsetIso(off) ==
    (IF off < 0 THEN <<"-">> ELSE <<"+">>)
      \o Pad((IF off < 0 THEN -off ELSE off) \div 60, 2) \o <<":">> \o Pad((IF off < 0 THEN -off ELSE off) % 60, 2)

TimeIso(t) == Pad(t[4], 2) \o <<":">> \o Pad(t[5], 2) \o <<":">> \o Pad(t[6], 2)

\* datetime.isoformat(sep): YYYY-MM-DD<sep>HH:MM:SS[+HH:MM]
DateTimeIso(t, sep) ==
    DateIso(t) \o <<sep>> \o TimeIso(t) \o (IF t[7] = 1 THEN OffsetIso(t[8]) ELSE <<>>)

\* str(x) of a scalar
str(x) ==
    CASE x.k = "none" -> PyStr(<<"N", "o", "n", "e">>)
      [] x.k = "bool" -> PyStr(IF x.v THEN <<"T", "r", "u", "e">> ELSE <<"F", "a", "l", "s", "e">>)
      [] x.k = "int" -> PyStr(Digits(x.v))
      [] x.k = "long" -> PyStr(Digits(x.v))
      [] x.k = "float" -> PyStr(FloatRepr(x.v))
      [] x.k = "str" -> x
      [] x.k = "bytes" -> PyStr(<<"b", "'">> \o x.v \o <<"'">>)
      [] x.k = "date" -> PyStr(DateIso(x.v))
      [] x.k = "datetime" -> PyStr(DateTimeIso(x.v, " "))
      [] OTHER -> PyStr(<<"<", x.k, ">">>)

IsNumberText(s) ==
    \/ AllDigits(s)
    \/ /\ Len(s) >= 3
       /\ s[Len(s) - 1] = "."
       /\ s[Len(s)] \in {"0", "5"}
       /\ AllDigits(SubSeq(s, 1, Len(s) - 2))

\* the float a numeric text denotes, in halves
ParseHalves(s) ==
    IF AllDigits(s) THEN 2 * ParseNat(s)
    ELSE 2 * ParseNat(SubSeq(s, 1, Len(s) - 2)) + (IF s[Len(s)] = "5" THEN 1 ELSE 0)

\* int(x); tag is "int", or "long" for Python 2's long(x)
ToInteger(x, tag) ==
    CASE x.k = "bool" -> Return([k |-> tag, v |-> IF x.v THEN 1 ELSE 0], <<>>)
      [] x.k \in {"int", "long"} -> Return([k |-> tag, v |-> x.v], <<>>)
      [] x.k = "float" -> Return([k |-> tag, v |-> x.v \div 2], <<>>)
      [] x.k \in {"str", "bytes"} ->
            IF AllDigits(x.v) THEN Return([k |-> tag, v |-> ParseNat(x.v)], <<>>)
            ELSE Raise("ValueError", <<"invalid literal for int()">>, <<>>)
      [] OTHER -> Raise("TypeError", <<"int() argument must be a string or a number">>, <<>>)

int(x) == ToInteger(x, "int")

\* formatter.py:14-15: on Python 3 long is int
long(x) == IF PY3 THEN int(x) ELSE ToInteger(x, "long")

float(x) ==
    CASE x.k = "bool" -> Return(PyFloat(IF x.v THEN 2 ELSE 0), <<>>)
      [] x.k \in {"int", "long"} -> Return(PyFloat(2 * x.v), <<>>)
      [] x.k = "float" -> Return(x, <<>>)
      [] x.k \in {"str", "bytes"} ->
            IF IsNumberText(x.v) THEN Return(PyFloat(ParseHalves(x.v)), <<>>)
            ELSE Raise("ValueError", <<"could not convert string to float">>, <<>>)
      [] OTHER -> Raise("TypeError", <<"float() argument must be a string or a number">>, <<>>)

\* isinstance(x, cls) for the builtin classes the lambdas test; bool is a subclass of int
isinstance_builtin(x, cls) ==
    CASE cls = "str" -> x.k = "str"
      [] cls = "float" -> x.k = "float"
      [] cls = "int" -> x.k \in {"int", "bool"}
      [] cls = "long" -> IF PY3 THEN x.k \in {"int", "bool"} ELSE x.k = "long"
      [] OTHER -> FALSE

\* x.isoformat()
isoformat(x) ==
    CASE x.k = "date" -> Return(PyStr(DateIso(x.v)), <<>>)
      [] x.k = "datetime" -> Return(PyStr(DateTimeIso(x.v, "T")), <<>>)
      [] OTHER -> Raise("AttributeError", <<"object has no attribute 'isoformat'">>, <<>>)

IsDateText(s) ==
    /\ Len(s) = 10
    /\ s[5] = "-" /\ s[8] = "-"
    /\ \A i \in {1, 2, 3, 4, 6, 7, 9, 10} : IsDigit(s[i])
    /\ ParseNat(SubSeq(s, 6, 7)) \in 1..12
    /\ ParseNat(SubSeq(s, 9, 10)) \in 1..31

IsTimeText(s) ==
    /\ Len(s) = 8
    /\ s[3] = ":" /\ s[6] = ":"
    /\ \A i \in {1, 2, 4, 5, 7, 8} : IsDigit(s[i])
    /\ ParseNat(SubSeq(s, 1, 2)) \in 0..23
    /\ ParseNat(SubSeq(s, 4, 5)) \in 0..59
    /\ ParseNat(SubSeq(s, 7, 8)) \in 0..59

IsOffsetText(s) ==
    /\ Len(s) = 6
    /\ s[1] \in {"+", "-"} /\ s[4] = ":"
    /\ \A i \in {2, 3, 5, 6} : IsDigit(s[i])

ParsedDate(s) == <<ParseNat(SubSeq(s, 1, 4)), ParseNat(SubSeq(s, 6, 7)), ParseNat(SubSeq(s, 9, 10))>>

ParsedTime(s) == <<ParseNat(SubSeq(s, 1, 2)), ParseNat(SubSeq(s, 4, 5)), ParseNat(SubSeq(s, 7, 8))>>

ParsedOffset(s) ==
    (IF s[1] = "-" THEN -1 ELSE 1) * (60 * ParseNat(SubSeq(s, 2, 3)) + ParseNat(SubSeq(s, 5, 6)))

\* dateutil.parser.parse(x) on the ISO-8601 shapes isoformat() produces; any
\* other text of the model's inputs is one dateutil rejects.
dateutil_parse(x) ==
    IF x.k \notin {"str", "bytes"}
    THEN Raise("TypeError", <<"Parser must be a string or character stream">>, <<>>)
    ELSE LET s == x.v IN
         CASE IsDateText(s) ->
                Return([k |-> "datetime", v |-> ParsedDate(s) \o <<0, 0, 0, 0, 0>>], <<>>)
           [] Len(s) = 19 /\ IsDateText(SubSeq(s, 1, 10)) /\ s[11] \in {"T", " "} /\ IsTimeText(SubSeq(s, 12, 19)) ->
                Return([k |-> "datetime", v |-> ParsedDate(s) \o ParsedTime(SubSeq(s, 12, 19)) \o <<0, 0>>], <<>>)
           [] Len(s) = 25 /\ IsDateText(SubSeq(s, 1, 10)) /\ s[11] \in {"T", " "} /\ IsTimeText(SubSeq(s, 12, 19))
                /\ IsOffsetText(SubSeq(s, 20, 25)) ->
                Return([k |-> "datetime",
                        v |-> ParsedDate(s) \o ParsedTime(SubSeq(s, 12, 19)) \o <<1, ParsedOffset(SubSeq(s, 20, 25))>>], <<>>)
           [] OTHER -> Raise("ValueError", <<"Unknown string format">>, <<>>)

\* datetime.date()
date_of(x) == PyDate(x.v[1], x.v[2], x.v[3])

\* the minute of an aware datetime on the UTC line (months of 31 days, which
\* keeps the order and the equality of instants of one month), and its second
Instant(t) == <<(((t[1] * 12 + t[2]) * 31 + t[3]) * 24 + t[4]) * 60 + t[5] - t[8], t[6]>>

IsNumber(x) == x.k \in {"bool", "int", "long", "float"}

Halves(x) ==
    CASE x.k = "bool" -> IF x.v THEN 2 ELSE 0
      [] x.k = "float" -> x.v
      [] OTHER -> 2 * x.v

\* Python's a == b
RECURSIVE PyEq(_, _)
PyEq(a, b) ==
    CASE IsNumber(a) /\ IsNumber(b) -> Halves(a) = Halves(b)
      [] a.k # b.k -> FALSE
      [] a.k = "datetime" ->
            IF a.v[7] = 1 /\ b.v[7] = 1 THEN Instant(a.v) = Instant(b.v)
            ELSE a.v = b.v
      [] a.k = "list" ->
            Len(a.v) = Len(b.v) /\ \A i \in 1..Len(a.v) : PyEq(a.v[i], b.v[i])
      [] a.k = "dict" ->
            Keys(a.v) = Keys(b.v) /\ \A key \in Keys(a.v) : PyEq(Lookup(a.v, key), Lookup(b.v, key))
      [] OTHER -> a.v = b.v

\* s[::-1]
Reverse(s) == [i \in 1..Len(s) |-> s[Len(s) + 1 - i]]

-----------------------------------------------------------------------------
(* bravado_core.schema and bravado_core.model: the collaborators marshal.py
   and formatter.py import *)

SWAGGER_PRIMITIVES == {"integer", "number", "string", "boolean", "null"}

MODEL_MARKER == "x-model"

has_default(spec) == "default" \in DOMAIN spec

get_default(spec) == IF "default" \in DOMAIN spec THEN spec["default"] ELSE None

is_required(spec) == IF "required" \in DOMAIN spec THEN spec["required"] ELSE FALSE

has_format(spec) == "format" \in DOMAIN spec

schema_get_format(spec) == spec["format"]

is_dict_like(value) == value.k = "dict"

is_list_like(value) == value.k = "list"

is_model(spec) == MODEL_MARKER \in DOMAIN spec

\* the absent sub-schema: falsy, as None and {} are
NoSpec == [absent |-> TRUE]

IsSpec(prop_spec) == "type" \in DOMAIN prop_spec

get_spec_for_prop(object_spec, object_value, prop_name) ==
    IF "properties" \in DOMAIN object_spec /\ prop_name \in DOMAIN object_spec["properties"]
    THEN object_spec["properties"][prop_name]
    ELSE NoSpec

\* the classes an instance of cls is an instance of
Mro(cls) == IF cls = "Dog" THEN {"Dog", "Pet"} ELSE {cls}

\* isinstance(model_value, model_type)
isinstance(model_value, model_type) ==
    model_value.k = "model" /\ model_type \in Mro(model_value.v.cls)

\* dir(model_value) with getattr: the attributes, by name
dir_items(model_value) == model_value.v.attrs

-----------------------------------------------------------------------------
(* formatter.py *)

NO_OP == "NO_OP"

SwaggerFormat(format, to_python, to_wire, validate, description) ==
    [format |-> format, to_python |-> to_python, to_wire |-> to_wire,
     validate |-> validate, description |-> description]

\* what _formatters.get(format) gives for a name that is not a key
NoFormatter == SwaggerFormat("", "None", "None", "None", "None")

byte_to_wire(b) == IF isinstance_builtin(b, "str") THEN Return(b, <<>>) ELSE Return(str(b), <<>>)

byte_to_python(s) == IF isinstance_builtin(s, "str") THEN Return(s, <<>>) ELSE Return(str(s), <<>>)

date_to_wire(d) == isoformat(d)

date_to_python(d) ==
    LET r == dateutil_parse(d) IN IF r.ok THEN Return(date_of(r.val), <<>>) ELSE r

double_to_wire(d) == IF isinstance_builtin(d, "float") THEN Return(d, <<>>) ELSE float(d)

double_to_python(d) == IF isinstance_builtin(d, "float") THEN Return(d, <<>>) ELSE float(d)

datetime_to_wire(dt) == isoformat(dt)

datetime_to_python(dt) == dateutil_parse(dt)

float_to_wire(f) == IF isinstance_builtin(f, "float") THEN Return(f, <<>>) ELSE float(f)

float_to_python(f) == IF isinstance_builtin(f, "float") THEN Return(f, <<>>) ELSE float(f)

int32_to_wire(i) == IF isinstance_builtin(i, "int") THEN Return(i, <<>>) ELSE int(i)

int32_to_python(i) == IF isinstance_builtin(i, "int") THEN Return(i, <<>>) ELSE int(i)

int64_to_wire(i) == IF isinstance_builtin(i, "long") THEN Return(i, <<>>) ELSE long(i)

int64_to_python(i) == IF isinstance_builtin(i, "long") THEN Return(i, <<>>) ELSE long(i)

\* the functions a caller's own SwaggerFormat carries
user_reverse(x) ==
    IF x.k \in {"str", "bytes"} THEN Return([x EXCEPT !.v = Reverse(x.v)], <<>>)
    ELSE Raise("TypeError", <<"object is not subscriptable">>, <<>>)

user_identity(x) == Return(x, <<>>)

user_str(x) == Return(str(x), <<>>)

\* fn(x), fn a function a SwaggerFormat holds
Call(fn, x) ==
    CASE fn = "byte.to_wire" -> byte_to_wire(x)
      [] fn = "byte.to_python" -> byte_to_python(x)
      [] fn = "date.to_wire" -> date_to_wire(x)
      [] fn = "date.to_python" -> date_to_python(x)
      [] fn = "double.to_wire" -> double_to_wire(x)
      [] fn = "double.to_python" -> double_to_python(x)
      [] fn = "date-time.to_wire" -> datetime_to_wire(x)
      [] fn = "date-time.to_python" -> datetime_to_python(x)
      [] fn = "float.to_wire" -> float_to_wire(x)
      [] fn = "float.to_python" -> float_to_python(x)
      [] fn = "int32.to_wire" -> int32_to_wire(x)
      [] fn = "int32.to_python" -> int32_to_python(x)
      [] fn = "int64.to_wire" -> int64_to_wire(x)
      [] fn = "int64.to_python" -> int64_to_python(x)
      [] fn = "user.reverse" -> user_reverse(x)
      [] fn = "user.identity" -> user_identity(x)
      [] fn = "user.str" -> user_str(x)

BuiltinNames == {"byte", "date", "double", "date-time", "float", "int32", "int64"}

BuiltinFormat(name) ==
    SwaggerFormat(name, name \o ".to_python", name \o ".to_wire", NO_OP, "Converts [wire] <=> python " \o name)

\* the module-level _formatters dict
BuiltinFormatters == [name \in BuiltinNames |-> BuiltinFormat(name)]

\* _formatters.get(format)
formatters_get(format) == IF format \in DOMAIN _formatters THEN _formatters[format] ELSE NoFormatter

\* [formatter, log]: the descriptor or NoFormatter, and the lookup's trace
get_format(format) ==
    LET formatter == formatters_get(format) IN
    [formatter |-> formatter,
     log |-> <<Event("get_format", format)>>
               \o (IF format # "" /\ formatter = NoFormatter THEN <<Event("warn", format)>> ELSE <<>>)]

\* to_wire without the None test
to_wire_no_none_test(spec, value) ==
    IF ~has_format(spec) THEN Return(value, <<>>)
    ELSE LET g == get_format(schema_get_format(spec)) IN
         IF g.formatter # NoFormatter
         THEN LET r == Call(g.formatter.to_wire, value) IN
              [r EXCEPT !.log = g.log \o <<Event("to_wire", g.formatter.to_wire)>>]
         ELSE Return(value, g.log)

to_wire(spec, value) ==
    IF IsNone(value) \/ ~has_format(spec) THEN Return(value, <<>>)
    ELSE LET g == get_format(schema_get_format(spec)) IN
         IF g.formatter # NoFormatter
         THEN LET r == Call(g.formatter.to_wire, value) IN
              [r EXCEPT !.log = g.log \o <<Event("to_wire", g.formatter.to_wire)>>]
         ELSE Return(value, g.log)

to_python(spec, value) ==
    IF IsNone(value) \/ ~has_format(spec) THEN Return(value, <<>>)
    ELSE LET g == get_format(schema_get_format(spec)) IN
         IF g.formatter # NoFormatter
         THEN LET r == Call(g.formatter.to_python, value) IN
              [r EXCEPT !.log = g.log \o <<Event("to_python", g.formatter.to_python)>>]
         ELSE Return(value, g.log)

\* register_format that keeps an entry already there (setdefault)
register_format_keeps_old(fmts, swagger_format) ==
    [name \in DOMAIN fmts \cup {swagger_format.format} |->
        IF name \in DOMAIN fmts THEN fmts[name] ELSE swagger_format]

\* the registry after register_format(swagger_format)
register_format(fmts, swagger_format) ==
    [name \in DOMAIN fmts \cup {swagger_format.format} |->
        IF name = swagger_format.format THEN swagger_format ELSE fmts[name]]

-----------------------------------------------------------------------------
(* marshal.py *)

RECURSIVE marshal_schema_object(_, _, _)
RECURSIVE marshal_array(_, _, _)
RECURSIVE marshal_array_loop(_, _, _, _, _, _)
RECURSIVE marshal_object(_, _, _)
RECURSIVE marshal_object_loop(_, _, _, _, _, _)
RECURSIVE marshal_model(_, _, _)

\* marshal_primitive without the default_used guard: the default is encoded too
marshal_primitive_encodes_default(spec, value) ==
    LET default_used == IsNone(value) /\ has_default(spec)
        value1 == IF default_used THEN get_default(spec) ELSE value
        entry == <<Event("marshal_primitive", "")>>
    IN  IF IsNone(value1) /\ is_required(spec)
        THEN SwaggerMappingError(<<"is a required value", spec>>, entry)
        ELSE LET r == to_wire(spec, value1) IN [r EXCEPT !.log = entry \o r.log]

\* marshal_primitive without the required check
marshal_primitive_no_required(spec, value) ==
    LET default_used == IsNone(value) /\ has_default(spec)
        value1 == IF default_used THEN get_default(spec) ELSE value
        entry == <<Event("marshal_primitive", "")>>
    IN  IF ~default_used
        THEN LET r == to_wire(spec, value1) IN [r EXCEPT !.log = entry \o r.log]
        ELSE Return(value1, entry)

marshal_primitive(spec, value) ==
    LET default_used == IsNone(value) /\ has_default(spec)
        value1 == IF default_used THEN get_default(spec) ELSE value
        entry == <<Event("marshal_primitive", "")>>
    IN  IF IsNone(value1) /\ is_required(spec)
        THEN SwaggerMappingError(<<"is a required value", spec>>, entry)
        ELSE IF ~default_used
        THEN LET r == to_wire(spec, value1) IN [r EXCEPT !.log = entry \o r.log]
        ELSE Return(value1, entry)

\* marshal_schema_object with the object test ahead of the model test
marshal_schema_object_object_first(swagger_spec, schema_object_spec, value) ==
    LET obj_type == schema_object_spec["type"] IN
    IF obj_type \in SWAGGER_PRIMITIVES
    THEN marshal_primitive(schema_object_spec, value)
    ELSE IF obj_type = "array"
    THEN marshal_array(swagger_spec, schema_object_spec, value)
    ELSE IF obj_type = "object"
    THEN marshal_object(swagger_spec, schema_object_spec, value)
    ELSE IF is_model(schema_object_spec)
    THEN IF is_dict_like(value)
         THEN marshal_object(swagger_spec, schema_object_spec, value)
         ELSE marshal_model(swagger_spec, schema_object_spec, value)
    ELSE IF obj_type = "file"
    THEN Return(value, <<>>)
    ELSE SwaggerMappingError(<<"Unknown type", obj_type, value>>, <<>>)

marshal_schema_object(swagger_spec, schema_object_spec, value) ==
    LET obj_type == schema_object_spec["type"] IN
    IF obj_type \in SWAGGER_PRIMITIVES
    THEN marshal_primitive(schema_object_spec, value)
    ELSE IF obj_type = "array"
    THEN marshal_array(swagger_spec, schema_object_spec, value)
    ELSE IF is_model(schema_object_spec)
    THEN IF is_dict_like(value)
         THEN marshal_object(swagger_spec, schema_object_spec, value)
         ELSE marshal_model(swagger_spec, schema_object_spec, value)
    ELSE IF obj_type = "object"
    THEN marshal_object(swagger_spec, schema_object_spec, value)
    ELSE IF obj_type = "file"
    THEN Return(value, <<>>)
    ELSE SwaggerMappingError(<<"Unknown type", obj_type, value>>, <<>>)

\* the for loop of marshal_array from element i on
marshal_array_loop(swagger_spec, array_spec, array_value, i, result, log) ==
    IF i > Len(array_value.v) THEN Return(PyList(result), log)
    ELSE LET r == marshal_schema_object(swagger_spec, array_spec["items"], array_value.v[i]) IN
         IF r.ok
         THEN marshal_array_loop(swagger_spec, array_spec, array_value, i + 1,
                                 Append(result, r.val), log \o r.log)
         ELSE [r EXCEPT !.log = log \o r.log]

marshal_array(swagger_spec, array_spec, array_value) ==
    IF ~is_list_like(array_value)
    THEN SwaggerMappingError(<<"Expected list like type", array_value.k, array_value>>,
                             <<Event("marshal_array", "")>>)
    ELSE marshal_array_loop(swagger_spec, array_spec, array_value, 1, <<>>,
                            <<Event("marshal_array", "")>>)

\* the loop of marshal_object without the skip of None values
marshal_object_loop_keeps_none(swagger_spec, object_spec, object_value, i, result, log) ==
    IF i > Len(object_value.v) THEN Return(PyDict(result), log)
    ELSE LET k == object_value.v[i].key
             v == object_value.v[i].val
             prop_spec == get_spec_for_prop(object_spec, object_value, k)
             log1 == Append(log, Event("get_spec_for_prop", k))
         IN  IF IsSpec(prop_spec)
             THEN LET r == marshal_schema_object(swagger_spec, prop_spec, v) IN
                  IF r.ok
                  THEN marshal_object_loop(swagger_spec, object_spec, object_value, i + 1,
                                           SetItem(result, k, r.val), log1 \o r.log)
                  ELSE [r EXCEPT !.log = log1 \o r.log]
             ELSE marshal_object_loop(swagger_spec, object_spec, object_value, i + 1,
                                      SetItem(result, k, v), log1)

\* the loop of marshal_object skipping a None value only where no spec is found
marshal_object_loop_skips_late(swagger_spec, object_spec, object_value, i, result, log) ==
    IF i > Len(object_value.v) THEN Return(PyDict(result), log)
    ELSE LET k == object_value.v[i].key
             v == object_value.v[i].val
             prop_spec == get_spec_for_prop(object_spec, object_value, k)
             log1 == Append(log, Event("get_spec_for_prop", k))
         IN  IF IsSpec(prop_spec)
             THEN LET r == marshal_schema_object(swagger_spec, prop_spec, v) IN
                  IF r.ok
                  THEN marshal_object_loop(swagger_spec, object_spec, object_value, i + 1,
                                           SetItem(result, k, r.val), log1 \o r.log)
                  ELSE [r EXCEPT !.log = log1 \o r.log]
             ELSE IF IsNone(v)
             THEN marshal_object_loop(swagger_spec, object_spec, object_value, i + 1, result, log1)
             ELSE marshal_object_loop(swagger_spec, object_spec, object_value, i + 1,
                                      SetItem(result, k, v), log1)

\* the for loop of marshal_object from item i on
marshal_object_loop(swagger_spec, object_spec, object_value, i, result, log) ==
    IF i > Len(object_value.v) THEN Return(PyDict(result), log)
    ELSE LET k == object_value.v[i].key
             v == object_value.v[i].val
         IN  IF IsNone(v)
             THEN marshal_object_loop(swagger_spec, object_spec, object_value, i + 1, result, log)
             ELSE LET prop_spec == get_spec_for_prop(object_spec, object_value, k)
                      log1 == Append(log, Event("get_spec_for_prop", k))
                  IN  IF IsSpec(prop_spec)
                      THEN LET r == marshal_schema_object(swagger_spec, prop_spec, v) IN
                           IF r.ok
                           THEN marshal_object_loop(swagger_spec, object_spec, object_value, i + 1,
                                                    SetItem(result, k, r.val), log1 \o r.log)
                           ELSE [r EXCEPT !.log = log1 \o r.log]
                      ELSE marshal_object_loop(swagger_spec, object_spec, object_value, i + 1,
                                               SetItem(result, k, v), log1)

marshal_object(swagger_spec, object_spec, object_value) ==
    IF ~is_dict_like(object_value)
    THEN SwaggerMappingError(<<"Expected dict like type", object_value.k, object_value>>,
                             <<Event("marshal_object", "")>>)
    ELSE marshal_object_loop(swagger_spec, object_spec, object_value, 1, <<>>,
                             <<Event("marshal_object", "")>>)

\* swagger_spec.definitions.get(model_name, None): "" stands for None
definitions_get(swagger_spec, model_name) ==
    IF model_name \in DOMAIN swagger_spec.definitions THEN swagger_spec.definitions[model_name] ELSE ""

\* marshal_model with the instance test ahead of the unknown-model test
marshal_model_instance_first(swagger_spec, model_spec, model_value) ==
    LET model_name == model_spec[MODEL_MARKER]
        model_type == definitions_get(swagger_spec, model_name)
        entry == <<Event("marshal_model", ""), Event("definitions.get", model_name)>>
    IN  IF ~isinstance(model_value, model_type)
        THEN SwaggerMappingError(<<"Expected model of type", model_name, model_value.k, model_value>>, entry)
        ELSE IF model_type = ""
        THEN SwaggerMappingError(<<"Unknown model", model_name>>, entry)
        ELSE LET object_value == PyDict(dir_items(model_value))
                 r == marshal_object(swagger_spec, model_spec, object_value)
             IN  [r EXCEPT !.log = entry \o r.log]

marshal_model(swagger_spec, model_spec, model_value) ==
    LET model_name == model_spec[MODEL_MARKER]
        model_type == definitions_get(swagger_spec, model_name)
        entry == <<Event("marshal_model", ""), Event("definitions.get", model_name)>>
    IN  IF model_type = ""
        THEN SwaggerMappingError(<<"Unknown model", model_name>>, entry)
        ELSE IF ~isinstance(model_value, model_type)
        THEN SwaggerMappingError(<<"Expected model of type", model_name, model_value.k, model_value>>, entry)
        ELSE LET object_value == PyDict(dir_items(model_value))
                 r == marshal_object(swagger_spec, model_spec, object_value)
             IN  [r EXCEPT !.log = entry \o r.log]

-----------------------------------------------------------------------------
(* The inputs the operations are called with *)

Txt_ab == <<"a", "b">>
Txt_42 == <<"4", "2">>

ADate == PyDate(2024, 3, 15)
\* a default as the schema document gives it: wire-shaped text
ADateText == PyStr(<<"2", "0", "2", "4", "-", "0", "3", "-", "1", "5">>)
NaiveDateTime == PyDateTime(2024, 3, 15, 10, 30, 0, 0, 0)
AwareDateTime == PyDateTime(2024, 3, 15, 10, 30, 0, 1, 330)

\* bytes is str on Python 2 and a type of its own on Python 3; long exists on Python 2
ByteString == IF PY3 THEN PyBytes(Txt_ab) ELSE PyStr(Txt_ab)
WideInt == IF PY3 THEN PyInt(42) ELSE PyLong(42)

Scalars ==
    {None, PyBool(TRUE), PyInt(7), PyFloat(3), PyStr(Txt_ab), PyStr(Txt_42),
     ADate, NaiveDateTime, AwareDateTime, ByteString, WideInt}

\* swagger_spec.definitions: model name -> model type
ModelRegistry == [name \in {"Pet", "User"} |-> name]

APet == PyModel("Pet", <<Pair("a", PyInt(7)), Pair("b", None), Pair("x", ADate)>>)
ADog == PyModel("Dog", <<Pair("a", None), Pair("x", PyStr(Txt_ab))>>)
AUser == PyModel("User", <<Pair("a", PyInt(7))>>)

Models == {APet, ADog, AUser}

FormatNames == BuiltinNames \cup {"custom-foo", "rev", ""}

UserFormats ==
    {SwaggerFormat("rev", "user.reverse", "user.reverse", NO_OP, "reversed text"),
     SwaggerFormat("rev", "user.identity", "user.str", NO_OP, "text"),
     SwaggerFormat("date", "user.identity", "user.str", NO_OP, "date as text")}

Type(t) == "type" :> t
Format(f) == "format" :> f
Default(d) == "default" :> d
Required(r) == "required" :> r
Items(i) == "items" :> i
Properties(p) == "properties" :> p
Model(m) == MODEL_MARKER :> m

Empty == [x \in {} |-> x]

FormatOpts == {Empty} \cup {Format(f) : f \in {"date", "int64", "rev", "custom-foo", ""}}
DefaultOpts == {Empty, Default(None), Default(ADateText)}
RequiredOpts == {Empty, Required(TRUE)}

\* primitive specs: every combination of format, default and required
PrimitiveSpecs ==
    {Type("string") @@ f @@ d @@ r : f \in FormatOpts, d \in DefaultOpts, r \in RequiredOpts}
      \cup {Type(t) : t \in SWAGGER_PRIMITIVES}
      \cup {Type("integer") @@ Required(FALSE), Type("integer") @@ Required(FALSE) @@ Format("int32")}

FormatSpecs == {Type("string")} \cup {Type("string") @@ Format(f) : f \in FormatNames}

\* the property and item specs of the container specs
PlainSpec == Type("string")
DateSpec == Type("string") @@ Format("date")
UnknownFormatSpec == Type("string") @@ Format("custom-foo")
RequiredSpec == Type("integer") @@ Required(TRUE)
DefaultedSpec == Type("string") @@ Default(ADateText) @@ Format("date")
InnerObjectSpec == Type("object") @@ Properties("a" :> RequiredSpec)
FileSpec == Type("file")
UnknownTypeSpec == Type("foo")

ArraySpecs == {Type("array") @@ Items(i) : i \in {PlainSpec, DateSpec, RequiredSpec, DefaultedSpec, InnerObjectSpec}}

PropertySets ==
    {Empty,
     "a" :> RequiredSpec @@ "b" :> DefaultedSpec,
     "a" :> PlainSpec @@ "b" :> DateSpec,
     "a" :> InnerObjectSpec @@ "b" :> (Type("array") @@ Items(PlainSpec)),
     "a" :> FileSpec @@ "b" :> UnknownFormatSpec}

ObjectSpecs == {Type("object") @@ Properties(p) : p \in PropertySets}

\* model specs are of type object and carry the marker; the marker is also
\* honoured on a spec of another type
ModelSpecs ==
    {Type(t) @@ Properties("a" :> RequiredSpec @@ "b" :> DefaultedSpec) @@ Model(m) :
        t \in {"object", "foo"}, m \in {"Pet", "Ghost"}}

ScalarSpecs ==
    {PlainSpec, DateSpec, UnknownFormatSpec, RequiredSpec, DefaultedSpec, Type("null"), Type("number"),
     Type("boolean"), FileSpec, UnknownTypeSpec}

KeyOrder == <<"a", "b", "x">>

\* the dict holding f's items, in KeyOrder
DictOf(f) ==
    LET Has(key) == key \in DOMAIN f
        ks == SelectSeq(KeyOrder, Has)
    IN  PyDict([i \in 1..Len(ks) |-> Pair(ks[i], f[ks[i]])])

Leaves == {None, PyInt(7), ADate}

InnerDict == DictOf("a" :> None @@ "x" :> PyInt(7))

InnerValues == Leaves \cup {InnerDict, APet}

\* the values a dict of the inputs holds under key
ValuesAt(key) ==
    CASE key = "a" -> {None, PyInt(7), InnerDict}
      [] key = "b" -> {None, ADate}
      [] OTHER -> {None, PyInt(7), InnerDict, APet}

Dicts ==
    {DictOf(f) : f \in UNION {{g \in [ks -> InnerValues] : \A key \in ks : g[key] \in ValuesAt(key)} :
                                ks \in SUBSET {"a", "b", "x"}}}

Lists == {PyList(<<>>)} \cup {PyList(<<e>>) : e \in InnerValues} \cup {PyList(<<e1, e2>>) : e1, e2 \in Leaves}

\* one value of every kind
Samples == {None, PyInt(7), PyStr(Txt_ab), ADate, InnerDict, PyList(<<None, PyInt(7)>>), APet}

JsonScalars == {value \in Scalars : value.k \in {"none", "bool", "int", "long", "float", "str"}}

\* the (spec, value) pairs marshal_schema_object is called with: JSON scalars
\* against every scalar spec, the other scalars and a model instance against
\* the specs that have a format or are no primitive
SchemaObjectCalls ==
    (ScalarSpecs \X JsonScalars)
      \cup ({spec \in ScalarSpecs : has_format(spec) \/ spec["type"] \notin SWAGGER_PRIMITIVES}
              \X (Scalars \cup {APet}))
      \cup (ArraySpecs \X (Lists \cup Samples))
      \cup ((ObjectSpecs \cup ModelSpecs) \X (Dicts \cup Models \cup Samples))

-----------------------------------------------------------------------------
(* The state machine: one call at a time, from "idle" to the call's result
   and back *)

Init ==
    /\ PY3 \in BOOLEAN
    /\ _formatters = BuiltinFormatters
    /\ definitions = ModelRegistry
    /\ registered = <<>>
    /\ op = "idle"
    /\ arg_spec = NoSpec
    /\ arg_value = None
    /\ ret = Return(None, <<>>)

TheSwaggerSpec == [definitions |-> definitions]

Called(name, spec, value, result) ==
    /\ op = "idle"
    /\ op' = name
    /\ arg_spec' = spec
    /\ arg_value' = value
    /\ ret' = result
    /\ UNCHANGED <<PY3, _formatters, definitions, registered>>

RegisterFormat ==
    /\ op = "idle"
    /\ Len(registered) < MaxRegs
    /\ \E swagger_format \in UserFormats :
         /\ _formatters' = register_format(_formatters, swagger_format)
         /\ registered' = Append(registered, swagger_format)
    /\ UNCHANGED <<PY3, definitions, op, arg_spec, arg_value, ret>>

GetFormat ==
    \E format \in FormatNames :
        LET g == get_format(format) IN
        Called("get_format", format, None, Return(g.formatter, g.log))

ToWire ==
    \E spec \in FormatSpecs, value \in Scalars :
        Called("to_wire", spec, value, to_wire(spec, value))

ToPython ==
    \E spec \in FormatSpecs, value \in Scalars :
        Called("to_python", spec, value, to_python(spec, value))

MarshalPrimitive ==
    \E spec \in PrimitiveSpecs, value \in Scalars :
        Called("marshal_primitive", spec, value, marshal_primitive(spec, value))

MarshalArray ==
    \E spec \in ArraySpecs, value \in Lists \cup {None, AUser} :
        Called("marshal_array", spec, value, marshal_array(TheSwaggerSpec, spec, value))

MarshalObject ==
    \E spec \in ObjectSpecs \cup ModelSpecs, value \in Dicts \cup {None, APet} :
        Called("marshal_object", spec, value, marshal_object(TheSwaggerSpec, spec, value))

MarshalModel ==
    \E spec \in ModelSpecs, value \in Models \cup {None, PyInt(7), InnerDict} :
        Called("marshal_model", spec, value, marshal_model(TheSwaggerSpec, spec, value))

MarshalSchemaObject ==
    \E call \in SchemaObjectCalls :
        Called("marshal_schema_object", call[1], call[2], marshal_schema_object(TheSwaggerSpec, call[1], call[2]))

\* the call returns to its caller
Finish ==
    /\ op # "idle"
    /\ op' = "idle"
    /\ arg_spec' = NoSpec
    /\ arg_value' = None
    /\ ret' = Return(None, <<>>)
    /\ UNCHANGED <<PY3, _formatters, definitions, registered>>

Next ==
    \/ RegisterFormat
    \/ GetFormat
    \/ ToWire
    \/ ToPython
    \/ MarshalPrimitive
    \/ MarshalArray
    \/ MarshalObject
    \/ MarshalModel
    \/ MarshalSchemaObject
    \/ Finish

Spec == Init /\ [][Next]_vars

-----------------------------------------------------------------------------
(* Properties *)

HasEvent(log, ev) == \E i \in 1..Len(log) : log[i].ev = ev

CountEvent(log, ev) == Cardinality({i \in 1..Len(log) : log[i].ev = ev})

IsMappingError(r, text) ==
    ~r.ok /\ r.exc.type = "SwaggerMappingError" /\ Len(r.exc.msg) > 0 /\ r.exc.msg[1] = text

\* the sub-transform the dispatch rules name, first match first
RuleRoute(spec, value) ==
    CASE spec["type"] \in {"integer", "number", "string", "boolean", "null"} -> "marshal_primitive"
      [] spec["type"] = "array" -> "marshal_array"
      [] MODEL_MARKER \in DOMAIN spec -> IF value.k = "dict" THEN "marshal_object" ELSE "marshal_model"
      [] spec["type"] = "object" -> "marshal_object"
      [] spec["type"] = "file" -> "identity"
      [] OTHER -> "unknown type"

\* C1: marshal_schema_object hands (spec, value) to the one sub-transform the
\* first matching rule names (primitive, array, model marker before object,
\* object, file identity, else the mapping error naming type and value), and
\* its outcome is that sub-transform's outcome.
C1_DispatchOrder ==
    op = "marshal_schema_object" =>
        LET route == RuleRoute(arg_spec, arg_value) IN
        CASE route = "marshal_primitive" ->
                ret.log[1].ev = "marshal_primitive" /\ ret = marshal_primitive(arg_spec, arg_value)
          [] route = "marshal_array" ->
                ret.log[1].ev = "marshal_array" /\ ret = marshal_array(TheSwaggerSpec, arg_spec, arg_value)
          [] route = "marshal_object" ->
                ret.log[1].ev = "marshal_object" /\ ret = marshal_object(TheSwaggerSpec, arg_spec, arg_value)
          [] route = "marshal_model" ->
                ret.log[1].ev = "marshal_model" /\ ret = marshal_model(TheSwaggerSpec, arg_spec, arg_value)
          [] route = "identity" -> ret.ok /\ ret.val = arg_value /\ ret.log = <<>>
          [] OTHER ->
                /\ IsMappingError(ret, "Unknown type")
                /\ ret.exc.msg = <<"Unknown type", arg_spec["type"], arg_value>>
                /\ ret.log = <<>>

\* a model instance marshaled against a model-marked spec whose type is not "object"
C1_Witness ==
    /\ op = "marshal_schema_object"
    /\ is_model(arg_spec) /\ arg_spec["type"] = "foo"
    /\ arg_value.k = "model"
    /\ ret.ok /\ ret.log[1].ev = "marshal_model"

\* C2 as stated: with a default and a format, null yields the default verbatim and
\* unencoded; a non-null value ignores the default and goes through to_wire.
C2_DefaultOrFormat ==
    (op = "marshal_primitive" /\ has_default(arg_spec) /\ has_format(arg_spec)) =>
        IF IsNone(arg_value)
        THEN ret.ok /\ ret.val = get_default(arg_spec) /\ ~HasEvent(ret.log, "to_wire")
        ELSE LET w == to_wire(arg_spec, arg_value) IN
             ret.ok = w.ok /\ ret.val = w.val /\ ret.exc = w.exc

\* C2 amended: the same, except that a declared default that is itself null on
\* a required spec fails with the missing-required-value error.
C2_DefaultOrFormatAmended ==
    (op = "marshal_primitive" /\ has_default(arg_spec) /\ has_format(arg_spec)) =>
        IF IsNone(arg_value)
        THEN /\ ~HasEvent(ret.log, "to_wire")
             /\ ~HasEvent(ret.log, "get_format")
             /\ IF IsNone(get_default(arg_spec)) /\ is_required(arg_spec)
                THEN IsMappingError(ret, "is a required value")
                ELSE ret.ok /\ ret.val = get_default(arg_spec)
        ELSE LET w == to_wire(arg_spec, arg_value) IN
             ret.ok = w.ok /\ ret.val = w.val /\ ret.exc = w.exc

\* null marshaled against a required spec with a default and the registered
\* format rev: the default comes back as declared, not reversed
C2_Witness ==
    /\ op = "marshal_primitive"
    /\ IsNone(arg_value)
    /\ has_default(arg_spec) /\ has_format(arg_spec) /\ is_required(arg_spec)
    /\ schema_get_format(arg_spec) = "rev" /\ "rev" \in DOMAIN _formatters
    /\ ret.ok /\ ret.val = ADateText

\* C3: null against a required primitive spec without default fails with the
\* missing-required-value mapping error; against a non-required one without
\* default it returns null and the format registry is not consulted.
C3_RequiredNull ==
    (op = "marshal_primitive" /\ IsNone(arg_value) /\ ~has_default(arg_spec)) =>
        IF is_required(arg_spec)
        THEN IsMappingError(ret, "is a required value")
        ELSE ret.ok /\ IsNone(ret.val) /\ ~HasEvent(ret.log, "get_format") /\ ~HasEvent(ret.log, "warn")

\* null against a required spec that has a format and no default
C3_Witness ==
    /\ op = "marshal_primitive"
    /\ IsNone(arg_value)
    /\ ~has_default(arg_spec) /\ is_required(arg_spec) /\ has_format(arg_spec)
    /\ ~ret.ok

\* the items of a dict whose value is not None, in order
NonNullItems(pairs) == LET Kept(p) == ~IsNone(p.val) IN SelectSeq(pairs, Kept)

\* C4: marshal_object drops every key whose value is null before anything is
\* done for it (no sub-schema lookup, no required check, no default): the
\* call behaves as on the mapping without those keys, and the result holds
\* exactly the keys whose value is non-null.
C4_NullKeysDropped ==
    (op = "marshal_object" /\ is_dict_like(arg_value)) =>
        /\ ret = marshal_object(TheSwaggerSpec, arg_spec, PyDict(NonNullItems(arg_value.v)))
        /\ ret.ok => Keys(ret.val.v) = Keys(NonNullItems(arg_value.v))
        /\ (\A i \in 1..Len(arg_value.v) : IsNone(arg_value.v[i].val)) => ret = Return(PyDict(<<>>), <<Event("marshal_object", "")>>)

\* a required property and a defaulted property both given as null, with a
\* non-null unknown property: only the unknown one is in the result
C4_Witness ==
    /\ op = "marshal_object"
    /\ is_dict_like(arg_value)
    /\ {"a", "b", "x"} \subseteq Keys(arg_value.v)
    /\ IsNone(Lookup(arg_value.v, "a")) /\ IsNone(Lookup(arg_value.v, "b"))
    /\ is_required(get_spec_for_prop(arg_spec, arg_value, "a"))
    /\ has_default(get_spec_for_prop(arg_spec, arg_value, "b"))
    /\ ret.ok /\ Keys(ret.val.v) = {"x"}

RECURSIVE NoNullInside(_)
NoNullInside(value) ==
    CASE value.k = "dict" -> \A i \in 1..Len(value.v) : ~IsNone(value.v[i].val) /\ NoNullInside(value.v[i].val)
      [] value.k = "list" -> \A i \in 1..Len(value.v) : ~IsNone(value.v[i]) /\ NoNullInside(value.v[i])
      [] OTHER -> TRUE

\* C5 as stated: a successful object or array shaped result holds no null at
\* any depth.
C5_NoNullAnywhere ==
    (op = "marshal_schema_object" /\ ret.ok /\ ret.val.k \in {"dict", "list"}) => NoNullInside(ret.val)

\* out, the result for (spec, value), holds under no key of a mapping the
\* object transform built a value whose input was null
RECURSIVE NullNotCopied(_, _, _)
NullNotCopied(spec, value, out) ==
    LET route == RuleRoute(spec, value) IN
    CASE route \in {"marshal_object", "marshal_model"} ->
            LET items == IF value.k = "model" THEN value.v.attrs ELSE value.v IN
            /\ out.k = "dict"
            /\ \A key \in Keys(out.v) :
                 /\ key \in Keys(items)
                 /\ ~IsNone(Lookup(items, key))
                 /\ ("properties" \in DOMAIN spec /\ key \in DOMAIN spec["properties"])
                      => NullNotCopied(spec["properties"][key], Lookup(items, key), Lookup(out.v, key))
      [] route = "marshal_array" ->
            /\ out.k = "list"
            /\ Len(out.v) = Len(value.v)
            /\ \A i \in 1..Len(value.v) : NullNotCopied(spec["items"], value.v[i], out.v[i])
      [] OTHER -> TRUE

\* C5 amended: in a successful result, every mapping the object transform built
\* (at any depth the schema covers) holds only keys whose input value was not
\* null; nulls are still emitted as array elements and inside values passed
\* through unmarshaled.
C5_NullNotCopied ==
    (op = "marshal_schema_object" /\ ret.ok) => NullNotCopied(arg_spec, arg_value, ret.val)

\* a nested object under a schema property loses its null key
C5_Witness ==
    /\ op = "marshal_schema_object"
    /\ arg_spec["type"] = "object" /\ is_dict_like(arg_value)
    /\ "a" \in Keys(arg_value.v) /\ Lookup(arg_value.v, "a") = InnerDict
    /\ get_spec_for_prop(arg_spec, arg_value, "a") = InnerObjectSpec
    /\ ret.ok /\ Lookup(ret.val.v, "a") = PyDict(<<Pair("x", PyInt(7))>>)

RECURSIVE IsJson(_)
IsJson(value) ==
    CASE value.k \in {"none", "bool", "int", "long", "float", "str"} -> TRUE
      [] value.k = "dict" -> \A i \in 1..Len(value.v) : IsJson(value.v[i].val)
      [] value.k = "list" -> \A i \in 1..Len(value.v) : IsJson(value.v[i])
      [] OTHER -> FALSE

\* C6: a successful marshal_schema_object result in which no format encoder
\* ran holds only JSON primitives, sequences and mappings: no model instance
\* and no other scalar, on any dispatch path.
C6_WireValue ==
    (op = "marshal_schema_object" /\ ret.ok /\ ~HasEvent(ret.log, "to_wire")) => IsJson(ret.val)

UnknownFormat(spec) ==
    has_format(spec) /\ schema_get_format(spec) # "" /\ schema_get_format(spec) \notin DOMAIN _formatters

\* C7: a non-null value against a spec whose non-empty format name is not
\* registered comes back unchanged from to_wire, to_python and
\* marshal_primitive, with exactly one warning and no error; a null value or
\* a spec without format comes back from to_wire and to_python unchanged with
\* no registry lookup and no warning.
C7_UnknownFormatPassthrough ==
    /\ (op \in {"to_wire", "to_python", "marshal_primitive"} /\ ~IsNone(arg_value) /\ UnknownFormat(arg_spec)) =>
          /\ ret.ok /\ ret.val = arg_value
          /\ CountEvent(ret.log, "warn") = 1
          /\ \A i \in 1..Len(ret.log) : ret.log[i].ev = "warn" => ret.log[i].name = schema_get_format(arg_spec)
          /\ ~HasEvent(ret.log, "to_wire") /\ ~HasEvent(ret.log, "to_python")
    /\ (op \in {"to_wire", "to_python"} /\ (IsNone(arg_value) \/ ~has_format(arg_spec))) =>
          ret = Return(arg_value, <<>>)
    /\ (op = "get_format" /\ arg_spec # "" /\ arg_spec \notin DOMAIN _formatters) =>
          ret.val = NoFormatter /\ ret.log = <<Event("get_format", arg_spec), Event("warn", arg_spec)>>

\* a date decoded against the unregistered format custom-foo
C7_Witness ==
    /\ op = "to_python"
    /\ UnknownFormat(arg_spec)
    /\ arg_value = ADate
    /\ ret.ok /\ ret.val = ADate /\ HasEvent(ret.log, "warn")

\* the descriptor last registered under name, or the built-in one, or none
RECURSIVE LatestOf(_, _)
LatestOf(history, name) ==
    IF Len(history) = 0
    THEN IF name \in BuiltinNames THEN BuiltinFormat(name) ELSE NoFormatter
    ELSE IF history[Len(history)].format = name THEN history[Len(history)]
    ELSE LatestOf(SubSeq(history, 1, Len(history) - 1), name)

C8_Lookup ==
    /\ \A name \in FormatNames : formatters_get(name) = LatestOf(registered, name)
    /\ op = "get_format" => ret.val = LatestOf(registered, arg_spec)

C8_Step ==
    /\ registered' # registered =>
          \A name \in FormatNames :
              name # registered'[Len(registered')].format => formatters_get(name)' = formatters_get(name)
    /\ registered' = registered => _formatters' = _formatters

\* C8: get_format(n) gives the descriptor most recently registered under n
\* (the built-in one if none was, none if n was never registered); a
\* register_format call changes the entry of its descriptor's name only; every
\* other call leaves the registry as it is.
C8_Registry == []C8_Lookup /\ [][C8_Step]_vars

\* the built-in date format was replaced and is looked up
C8_Witness ==
    /\ op = "get_format" /\ arg_spec = "date"
    /\ Len(registered) = 2
    /\ registered[1].format = "rev" /\ registered[2].format = "date"
    /\ ret.val = registered[2] /\ ret.val # BuiltinFormat("date")
    /\ formatters_get("rev") = registered[1]

\* the native type of a built-in format
NativeOf(name, value) ==
    CASE name = "byte" -> value = ByteString
      [] name \in {"double", "float"} -> value.k = "float"
      [] name = "int32" -> value.k = "int"
      [] name = "int64" -> value = WideInt
      [] name = "date" -> value.k = "date"
      [] name = "date-time" -> value.k = "datetime"
      [] OTHER -> FALSE

\* C9: for the built-in formats, decoding what to_wire encoded gives back a
\* value equal to the native value that was encoded.
C9_RoundTrip ==
    (/\ op = "to_wire"
     /\ has_format(arg_spec)
     /\ schema_get_format(arg_spec) \in BuiltinNames
     /\ formatters_get(schema_get_format(arg_spec)) = BuiltinFormat(schema_get_format(arg_spec))
     /\ NativeOf(schema_get_format(arg_spec), arg_value)) =>
        /\ ret.ok
        /\ to_python(arg_spec, ret.val).ok
        /\ PyEq(to_python(arg_spec, ret.val).val, arg_value)

\* C10: marshal_model of a non-mapping value fails on an unregistered model
\* name first, then on a value that is no instance of the model type, and
\* else gives what marshal_object gives for the mapping of all the instance's
\* attributes (unknown attributes verbatim, null ones omitted); a mapping
\* against a model-marked spec is marshaled as an object without a model
\* registry lookup.
C10_ModelTransform ==
    /\ (op = "marshal_model" /\ ~is_dict_like(arg_value)) =>
          IF arg_spec[MODEL_MARKER] \notin DOMAIN definitions
          THEN IsMappingError(ret, "Unknown model")
          ELSE IF ~(arg_value.k = "model" /\ definitions[arg_spec[MODEL_MARKER]] \in Mro(arg_value.v.cls))
          THEN IsMappingError(ret, "Expected model of type")
          ELSE LET mo == marshal_object(TheSwaggerSpec, arg_spec, PyDict(arg_value.v.attrs)) IN
               /\ ret.ok = mo.ok /\ ret.val = mo.val /\ ret.exc = mo.exc
               /\ ret.ok =>
                    \A i \in 1..Len(arg_value.v.attrs) :
                        LET attr == arg_value.v.attrs[i] IN
                        /\ IsNone(attr.val) => attr.key \notin Keys(ret.val.v)
                        /\ (~IsNone(attr.val) /\ attr.key \notin DOMAIN arg_spec["properties"]) =>
                              (attr.key \in Keys(ret.val.v) /\ Lookup(ret.val.v, attr.key) = attr.val)
    /\ (op = "marshal_schema_object" /\ is_model(arg_spec) /\ arg_spec["type"] \notin SWAGGER_PRIMITIVES \cup {"array"}
          /\ is_dict_like(arg_value)) =>
          /\ ~HasEvent(ret.log, "definitions.get")
          /\ ret = marshal_object(TheSwaggerSpec, arg_spec, arg_value)

\* a Pet instance with a null attribute and an attribute the schema lacks
C10_Witness ==
    /\ op = "marshal_model"
    /\ arg_value = APet
    /\ ret.ok
    /\ Keys(ret.val.v) = {"a", "x"}
    /\ Lookup(ret.val.v, "x") = ADate

====
